---- MODULE Spec2Model ----
(***************************************************************************)
(* Ramblin Recs front end: the views (Feed, SavedEvents, Onboarding), the  *)
(* EventCard component, the HTTP helpers of api.ts and the three           *)
(* localStorage keys they share, as state machines.  A handler that        *)
(* contains an await is two actions: the part up to the await (which       *)
(* issues the request) and the continuation that runs when the request     *)
(* settles.  A handler without an await is one action.                     *)
(***************************************************************************)
EXTENDS Integers, Sequences, FiniteSets, Bags, TLC

VARIABLES
    user_id,        \* localStorage "user_id"; "" stands for an absent key
    user_email,     \* localStorage "user_email"; "" stands for an absent key
    saved_events,   \* localStorage "saved_events", the raw stored value
    mounted,        \* whether the view's mount effect has run
    savedEvents,    \* SavedEvents: the displayed events
    savedLoading,   \* SavedEvents: its loading flag
    events,         \* Feed: the displayed events
    pagination,     \* Feed: the pagination info, or Null
    currentPage,    \* Feed
    loading,        \* Feed
    ingesting,      \* Feed
    userInterests,  \* Feed
    revision,       \* Onboarding: 1 is pages/Onboarding.tsx, 2 the later revision
    email,          \* Onboarding: the form's fields
    name,
    selected,
    custom,
    saving,         \* Onboarding
    error,          \* Onboarding: the inline error text, or Null
    isEditing,      \* Onboarding
    route,          \* the route the router shows
    cards,          \* the mounted EventCards of the view, keyed by ev.id
    net,            \* the requests in flight, a bag
    last            \* the handler that ran last and what it showed the user

storageVars == <<user_id, user_email, saved_events>>
savedVars == <<savedEvents, savedLoading>>
feedVars == <<events, pagination, currentPage, loading, ingesting, userInterests>>
onbVars == <<revision, email, name, selected, custom, saving, error, isEditing, route>>
vars == <<storageVars, mounted, savedVars, feedVars, onbVars, cards, net, last>>

Null == [null |-> TRUE]

(***************************************************************************)
(* Bounds of the model.                                                    *)
(***************************************************************************)
NumEvents == 3      \* the events of the backend's catalog are 1..NumEvents
NumSavable == 2     \* the events some tab saves are 1..NumSavable

EventIds == 1..NumEvents
SavableIds == 1..NumSavable

(***************************************************************************)
(* Events.  start_time is an ISO text with a zone offset; it is kept as    *)
(* the wall-clock reading and the offset, and new Date(s).getTime() is the *)
(* instant wall - off.  Every start_time is a valid date.                  *)
(***************************************************************************)
StartTimeOf(id) ==
    CASE id % 4 = 1 -> [wall |-> 3, off |-> 2]
      [] id % 4 = 2 -> [wall |-> 2, off |-> 0]
      [] id % 4 = 3 -> [wall |-> 3, off |-> 2]
      [] OTHER      -> [wall |-> 1, off |-> 1]

EventT(id) == [id |-> id, start_time |-> StartTimeOf(id)]

getTime(start_time) == start_time.wall - start_time.off

\* The sequences over S without repetition.
RECURSIVE NoRepSeqs(_)
NoRepSeqs(S) ==
    IF S = {} THEN {<<>>}
    ELSE {<<>>} \cup UNION {{<<x>> \o s : s \in NoRepSeqs(S \ {x})} : x \in S}

Includes(s, x) == \E i \in 1..Len(s) : s[i] = x

Range(s) == {s[i] : i \in 1..Len(s)}

\* The list a stored value stands for: empty when absent, empty or unreadable.
SavedList(raw) == IF raw.kind = "array" THEN raw.ids ELSE <<>>

(***************************************************************************)
(* localStorage values and JSON.  A stored value is absent ("null"), the   *)
(* empty string, a text JSON.parse rejects ("bad"), or the JSON text of an *)
(* array of ids.                                                           *)
(***************************************************************************)
RawNull == [kind |-> "null", ids |-> <<>>]
RawEmpty == [kind |-> "empty", ids |-> <<>>]
RawBad == [kind |-> "bad", ids |-> <<>>]

JSONstringify(ids) == [kind |-> "array", ids |-> ids]

\* localStorage.getItem('saved_events') || '[]'
GetItemOrEmptyArray(raw) ==
    IF raw.kind \in {"null", "empty"} THEN JSONstringify(<<>>) ELSE raw

\* JSON.parse: ok = FALSE stands for the SyntaxError it throws.
JSONparse(raw) == [ok |-> raw.kind = "array", val |-> raw.ids]

RawValues == {RawNull, RawEmpty, RawBad} \cup {JSONstringify(s) : s \in NoRepSeqs(SavableIds)}

(***************************************************************************)
(* api.ts.  A response: the fetch either rejects (transport) or yields a   *)
(* status, a status text and a body that decodes as JSON or does not.      *)
(***************************************************************************)
StatusTexts == [s \in {200, 204, 299, 300, 404, 500} |->
    CASE s = 200 -> "OK" [] s = 204 -> "No Content" [] s = 299 -> ""
      [] s = 300 -> "Multiple Choices" [] s = 404 -> "Not Found"
      [] OTHER -> "Internal Server Error"]

\* The statuses the backend answers the views with.
Statuses == {200, 404, 500}

\* Response.ok
ResponseOk(status) == status >= 200 /\ status <= 299

\* The outcomes of a fetch with a status of Codes whose decoded body would be
\* one of Bodies: fetch rejects (transport), or resolves with a response whose
\* body decodes as JSON or not.  The body matters only when the status is a
\* success and the body decodes.
ResponsesWith(Codes, Bodies) ==
    LET none == CHOOSE b \in Bodies : TRUE
        Response(t, c, j, b) ==
            [transport |-> t, status |-> c,
             statusText |-> IF t THEN "" ELSE StatusTexts[c], json |-> j, body |-> b]
    IN  {Response(TRUE, 0, FALSE, none)}
        \cup {Response(FALSE, c, FALSE, none) : c \in Codes}
        \cup {Response(FALSE, c, TRUE, none) : c \in {x \in Codes : ~ResponseOk(x)}}
        \cup {Response(FALSE, c, TRUE, b) : c \in {x \in Codes : ResponseOk(x)}, b \in Bodies}

Responses(Bodies) == ResponsesWith(Statuses, Bodies)

\* The body with the check of r.ok forgotten.
SettleIgnoringStatus(r) ==
    IF r.transport
    THEN [ok |-> FALSE, message |-> "Failed to fetch", value |-> r.body]
    ELSE IF ~r.json
    THEN [ok |-> FALSE, message |-> "Unexpected end of JSON input", value |-> r.body]
    ELSE [ok |-> TRUE, message |-> "", value |-> r.body]

\* const r = await fetch(...);
\* if (!r.ok) throw new Error(`${r.status} ${r.statusText}`); return r.json();
Settle(r) ==
    IF r.transport
    THEN [ok |-> FALSE, message |-> "Failed to fetch", value |-> r.body]
    ELSE IF ~ResponseOk(r.status)
    THEN [ok |-> FALSE,
          message |-> ToString(r.status) \o " " \o r.statusText,
          value |-> r.body]
    ELSE IF ~r.json
    THEN [ok |-> FALSE, message |-> "Unexpected end of JSON input", value |-> r.body]
    ELSE [ok |-> TRUE, message |-> "", value |-> r.body]

\* The path of a request: the endpoint and its query, as the URL text spells it.
Path(ep, query) == [ep |-> ep, query |-> query]

\* A request of a view: the continuation awaiting it, what that continuation
\* captured before the await, and the fetch issued for it; atMount marks the
\* request a view's mount effect issued, which no other request precedes.
Request(op, awaitedBy, method, path, captured) ==
    [op |-> op, awaitedBy |-> awaitedBy, method |-> method, path |-> path, body |-> Null,
     captured |-> captured, attempts |-> 1, atMount |-> FALSE]

NoRequest == Request("", "", "", Path("", <<>>), <<>>)
NoResult == [ok |-> FALSE, message |-> "", value |-> <<>>]

\* The bag of the requests a handler issues, given as a list.
Pending(reqs) == [r \in Range(reqs) |-> Cardinality({i \in 1..Len(reqs) : reqs[i] = r})]

\* The requests in flight once req has settled.
Remove(inflight, req) == inflight (-) SetToBag({req})

\* What the handler that ran last did: its name, the card it ran on, the branch
\* it took, the alert it raised, the console.error labels it wrote.
Did(op, id, note, alert, log) ==
    [op |-> op, id |-> id, note |-> note, alert |-> alert, log |-> log,
     unhandled |-> FALSE, req |-> NoRequest, res |-> NoResult]

\* The same for a continuation: the request it awaited, how that settled and
\* whether the rejection left the handler uncaught.
Settled(op, req, res, alert, log, unhandled) ==
    [op |-> op, id |-> 0, note |-> "", alert |-> alert, log |-> log,
     unhandled |-> unhandled, req |-> req, res |-> res]

\* The same for a continuation of the Feed, whose request is the one that left net.
Resumed(op, res, alert, log, unhandled) == Settled(op, NoRequest, res, alert, log, unhandled)

\* What a view's continuation sees of a settlement: whether it threw, and the value.
Seen(s) == [ok |-> s.ok, message |-> "", value |-> IF s.ok THEN s.value ELSE <<>>]

Env == Did("env", 0, "", "", {})

(***************************************************************************)
(* EventCard.                                                              *)
(***************************************************************************)
\* checkIfSaved with the setIsSaved left out.
checkIfSavedKeepsFlag(raw, id, isSaved) == [isSaved |-> isSaved, log |-> {}]

\* checkIfSaved: the isSaved flag after it ran, and what it logged.
checkIfSaved(raw, id, isSaved) ==
    LET p == JSONparse(GetItemOrEmptyArray(raw))
    IN  IF p.ok
        THEN [isSaved |-> Includes(p.val, id), log |-> {}]
        ELSE [isSaved |-> isSaved, log |-> {"Error checking if event is saved:"}]

\* A card mounts with isSaved = false; its effect calls checkIfSaved if userId.
MountCard(userId, raw, id) ==
    IF userId # "" THEN checkIfSaved(raw, id, FALSE)
    ELSE [isSaved |-> FALSE, log |-> {}]

MountCards(userId, raw, shown) ==
    [id \in {shown[i].id : i \in 1..Len(shown)} |->
        [isSaved |-> MountCard(userId, raw, id).isSaved]]

MountLog(userId, raw, shown) ==
    UNION {MountCard(userId, raw, shown[i].id).log : i \in 1..Len(shown)}

\* Unsave with the filter's test inverted.
UnsaveInverted(savedEventIds, id) == SelectSeq(savedEventIds, LAMBDA x : x = id)

\* The unsave branch: the list toggleSave writes back.
Unsave(savedEventIds, id) == SelectSeq(savedEventIds, LAMBDA x : x # id)

\* Save without the includes test.
SaveAlways(savedEventIds, id) == Append(savedEventIds, id)

\* The save branch: the list after the push, which is written only if it changed.
Save(savedEventIds, id) ==
    IF ~Includes(savedEventIds, id) THEN Append(savedEventIds, id) ELSE savedEventIds

\* toggleSave with a parse failure read as an empty list.
toggleSaveFallback(raw, id, isSaved) ==
    LET p == JSONparse(GetItemOrEmptyArray(raw))
        val == IF p.ok THEN p.val ELSE <<>>
    IN  IF isSaved
        THEN [threw |-> FALSE, raw |-> JSONstringify(Unsave(val, id)), isSaved |-> FALSE]
        ELSE [threw |-> FALSE, raw |-> JSONstringify(Save(val, id)), isSaved |-> TRUE]

\* The try block of toggleSave up to onSaved: the stored value and the flag
\* after it, or threw = TRUE when JSON.parse threw.
toggleSave(raw, id, isSaved) ==
    LET p == JSONparse(GetItemOrEmptyArray(raw))
    IN  IF ~p.ok
        THEN [threw |-> TRUE, raw |-> raw, isSaved |-> isSaved]
        ELSE IF isSaved
        THEN [threw |-> FALSE, raw |-> JSONstringify(Unsave(p.val, id)), isSaved |-> FALSE]
        ELSE LET pushed == Save(p.val, id)
             IN  [threw |-> FALSE,
                  raw |-> IF pushed # p.val THEN JSONstringify(pushed) ELSE raw,
                  isSaved |-> TRUE]

(***************************************************************************)
(* SavedEvents.                                                            *)
(***************************************************************************)
\* The comparator with its operands swapped.
compareDescending(a, b) == getTime(b.start_time) - getTime(a.start_time)

\* (a, b) => new Date(a.start_time).getTime() - new Date(b.start_time).getTime()
compareStart(a, b) == getTime(a.start_time) - getTime(b.start_time)

\* Array.prototype.sort with compareStart: a stable sort.
RECURSIVE sortEvents(_)
sortEvents(s) ==
    IF s = <<>> THEN <<>>
    ELSE LET e == s[Len(s)]
             init == sortEvents(SubSeq(s, 1, Len(s) - 1))
             k == Cardinality({i \in 1..Len(init) : compareStart(init[i], e) <= 0})
         IN  SubSeq(init, 1, k) \o <<e>> \o SubSeq(init, k + 1, Len(init))

\* The feed's events with the filter left out.
filterNone(body, savedEventIds) == IF body.hasEvents THEN body.events ELSE <<>>

\* feedResponse.events || [], then the filter on savedEventIds.includes(event.id)
filterSaved(body, savedEventIds) ==
    LET allEvents == IF body.hasEvents THEN body.events ELSE <<>>
    IN  SelectSeq(allEvents, LAMBDA event : Includes(savedEventIds, event.id))

SavedFeedBodies ==
    {[hasEvents |-> TRUE, events |-> [i \in 1..Len(s) |-> EventT(s[i])]] :
        s \in NoRepSeqs(EventIds)}
    \cup {[hasEvents |-> FALSE, events |-> <<>>]}

SavedFeedResponses == Responses(SavedFeedBodies)

\* loadSavedEvents without its early returns: the feed is fetched whatever
\* the user id and the list are.
loadSavedEventsAlwaysFetch(userId, raw, shown, shownCards) ==
    [savedEvents |-> shown, loading |-> TRUE, cards |-> <<>>,
     issue |-> <<Request("loadSavedEvents", "", "GET", Path("/events/feed", <<>>),
                         SavedList(raw))>>,
     log |-> {}]

\* loadSavedEvents up to its await: what it does to the view.
\* Returns the view's fields, the cards left mounted and the request issued.
loadSavedEvents(userId, raw, shown, shownCards) ==
    IF userId = ""
    THEN [savedEvents |-> shown, loading |-> FALSE, cards |-> shownCards,
          issue |-> <<>>, log |-> {}]
    ELSE LET p == JSONparse(GetItemOrEmptyArray(raw))
         IN  IF ~p.ok
             THEN [savedEvents |-> <<>>, loading |-> FALSE, cards |-> <<>>, issue |-> <<>>,
                   log |-> {"Error loading saved events:"}]
             ELSE IF Len(p.val) = 0
             THEN [savedEvents |-> <<>>, loading |-> FALSE, cards |-> <<>>, issue |-> <<>>,
                   log |-> {}]
             ELSE [savedEvents |-> shown, loading |-> TRUE, cards |-> <<>>,
                   issue |-> <<Request("loadSavedEvents", "", "GET",
                                       Path("/events/feed", <<>>), p.val)>>,
                   log |-> {}]

\* The mount effect of SavedEvents: the debug parse, then loadSavedEvents().
SavedEventsEffect ==
    /\ ~mounted
    /\ mounted' = TRUE
    /\ LET r == loadSavedEvents(user_id, saved_events, savedEvents, cards)
           dbg == IF JSONparse(GetItemOrEmptyArray(saved_events)).ok THEN {}
                  ELSE {"Error parsing saved events:"}
       IN  /\ savedEvents' = r.savedEvents
           /\ savedLoading' = r.loading
           /\ cards' = r.cards
           /\ net' = net (+) Pending(r.issue)
           /\ last' = Did("useEffect", 0, "", "", dbg \cup r.log)
    /\ UNCHANGED <<storageVars, feedVars, onbVars>>

\* The continuation of loadSavedEvents after await getJSON("/events/feed").
LoadSavedEventsDone(req, resp) ==
    /\ req.op = "loadSavedEvents"
    /\ net' = Remove(net, req)
    /\ LET s == Settle(resp)
           shown == IF s.ok THEN sortEvents(filterSaved(s.value, req.captured))
                    ELSE <<>>
       IN  /\ savedEvents' = shown
           /\ savedLoading' = FALSE
           /\ cards' = MountCards(user_id, saved_events, shown)
           /\ last' = Settled("loadSavedEvents", req, Seen(s), "",
                               (IF s.ok THEN {} ELSE {"Error loading saved events:"})
                               \cup MountLog(user_id, saved_events, shown), FALSE)
    /\ UNCHANGED <<storageVars, mounted, feedVars, onbVars>>

\* The branch a toggleSave takes and whether storage holds the id.
Branch(raw, id, isSaved) ==
    (IF isSaved THEN "unsave" ELSE "save") \o
    (IF Includes(SavedList(raw), id) THEN "-present" ELSE "-absent")

\* toggleSave of the card of event id, whose onSaved is loadSavedEvents.
ToggleSaveSaved(id) ==
    /\ id \in DOMAIN cards
    /\ UNCHANGED <<feedVars, onbVars>>
    /\ IF user_id = ""
       THEN /\ last' = Did("toggleSave", id, "", "Please onboard first.", {})
            /\ UNCHANGED <<storageVars, mounted, savedVars, cards, net>>
       ELSE LET t == toggleSave(saved_events, id, cards[id].isSaved)
                note == Branch(saved_events, id, cards[id].isSaved)
            IN  IF t.threw
                THEN /\ last' = Did("toggleSave", id, note,
                                    "Failed to save/unsave event. Please try again.",
                                    {"Error toggling save:"})
                     /\ UNCHANGED <<storageVars, mounted, savedVars, cards, net>>
                ELSE LET r == loadSavedEvents(user_id, t.raw, savedEvents,
                                    [cards EXCEPT ![id].isSaved = t.isSaved])
                     IN  /\ saved_events' = t.raw
                         /\ savedEvents' = r.savedEvents
                         /\ savedLoading' = r.loading
                         /\ cards' = r.cards
                         /\ net' = net (+) Pending(r.issue)
                         /\ last' = Did("toggleSave", id, note, "", r.log)
                         /\ UNCHANGED <<user_id, user_email, mounted>>

(***************************************************************************)
(* The environment of a tab: another tab's EventCard toggles the shared    *)
(* key with whatever flag it holds, and the user or another script removes *)
(* or overwrites the key.                                                  *)
(***************************************************************************)
OtherTabToggle(id, isSaved) ==
    /\ user_id # ""
    /\ ~toggleSave(saved_events, id, isSaved).threw
    /\ saved_events' = toggleSave(saved_events, id, isSaved).raw
    /\ last' = Env
    /\ UNCHANGED <<user_id, user_email, mounted, savedVars, feedVars, onbVars, cards, net>>

StorageCleared ==
    /\ saved_events # RawNull
    /\ saved_events' = RawNull
    /\ last' = Env
    /\ UNCHANGED <<user_id, user_email, mounted, savedVars, feedVars, onbVars, cards, net>>

StorageCorrupted ==
    /\ saved_events # RawBad
    /\ saved_events' = RawBad
    /\ last' = Env
    /\ UNCHANGED <<user_id, user_email, mounted, savedVars, feedVars, onbVars, cards, net>>

(***************************************************************************)
(* The SavedEvents tab.                                                    *)
(***************************************************************************)
NoCards == <<>>

\* The state of a view's hooks when the component is constructed.
InitFeedVars ==
    /\ events = <<>>
    /\ pagination = Null
    /\ currentPage = 1
    /\ loading = TRUE
    /\ ingesting = FALSE
    /\ userInterests = <<>>

InitOnbVars ==
    /\ revision = 2
    /\ email = ""
    /\ name = ""
    /\ selected = <<>>
    /\ custom = <<>>
    /\ saving = FALSE
    /\ error = Null
    /\ isEditing = FALSE
    /\ route = ""

InitSaved ==
    /\ user_id \in {"", "u1"}
    /\ user_email = ""
    /\ saved_events \in RawValues
    /\ mounted = FALSE
    /\ savedEvents = <<>>
    /\ savedLoading = TRUE
    /\ InitFeedVars
    /\ InitOnbVars
    /\ cards = NoCards
    /\ net = EmptyBag
    /\ last = Did("", 0, "", "", {})

NextSaved ==
    \/ SavedEventsEffect
    \/ \E req \in BagToSet(net) : \E resp \in SavedFeedResponses : LoadSavedEventsDone(req, resp)
    \/ \E id \in EventIds : ToggleSaveSaved(id)
    \/ \E id \in SavableIds : \E isSaved \in BOOLEAN : OtherTabToggle(id, isSaved)
    \/ StorageCleared
    \/ StorageCorrupted

SpecSaved == InitSaved /\ [][NextSaved]_vars

(***************************************************************************)
(* Properties of the SavedEvents tab.                                      *)
(***************************************************************************)
AfterToggle == last.op = "toggleSave"
AfterLoad == last.req.op = "loadSavedEvents"
ResponseEvents(body) == IF body.hasEvents THEN Range(body.events) ELSE {}

\* C1: whatever toggleSave calls ran, on cards whose isSaved flag may be stale,
\* the stored saved_events list holds each event id at most once.
C1_SavedIdsUnique ==
    LET l == SavedList(saved_events)
    IN  \A i, j \in 1..Len(l) : i # j => l[i] # l[j]

\* A toggleSave ran on a card whose flag said "not saved" while storage held the id.
C1_Witness ==
    AfterToggle /\ last.note = "save-present" /\ last.alert = ""
    /\ Len(SavedList(saved_events)) = NumSavable

\* C2: a toggleSave that takes the save branch for an id storage already holds,
\* or the unsave branch for an id storage lacks, leaves the stored list as it was.
C2_ToggleIdempotent ==
    [][\A id \in DOMAIN cards :
        (last'.op = "toggleSave" /\ last'.id = id
         /\ (cards[id].isSaved <=> ~Includes(SavedList(saved_events), id)))
        => SavedList(saved_events') = SavedList(saved_events)]_vars

\* An unsave ran for an id storage lacks, storage holding some other id.
C2_Witness ==
    AfterToggle /\ last.note = "unsave-absent" /\ SavedList(saved_events) # <<>>

\* C5: the displayed saved events are in non-decreasing order of start instant.
C5_SortedByStart ==
    \A i, j \in 1..Len(savedEvents) :
        i < j => getTime(savedEvents[i].start_time) <= getTime(savedEvents[j].start_time)

\* A load succeeded whose response listed the saved events in another order.
C5_Witness ==
    AfterLoad /\ last.res.ok /\ Len(savedEvents) >= 2
    /\ filterSaved(last.res.value, last.req.captured) # savedEvents

\* C6: after a successful load the displayed events are exactly the response's
\* events whose id is in the list read before the request; nothing is reported.
C6_DisplayedIsIntersection ==
    (AfterLoad /\ last.res.ok) =>
        /\ Range(savedEvents) =
               {e \in ResponseEvents(last.res.value) : e.id \in Range(last.req.captured)}
        /\ last.alert = ""
        /\ "Error loading saved events:" \notin last.log

\* A load succeeded with a saved id the response lacks and an unsaved event in it.
C6_Witness ==
    /\ AfterLoad /\ last.res.ok /\ savedEvents # <<>>
    /\ \E id \in Range(last.req.captured) :
          \A e \in ResponseEvents(last.res.value) : e.id # id
    /\ \E e \in ResponseEvents(last.res.value) : e.id \notin Range(last.req.captured)

\* The stored value stands for an empty list: absent, the empty text, or "[]".
EmptyStored(raw) == raw \in {RawNull, RawEmpty, JSONstringify(<<>>)}

\* C14: when loadSavedEvents runs (from the mount effect, or as the onSaved of
\* a card that toggled) with no stored user id or with an empty saved_events
\* list, it issues no request and ends with loading false, no event displayed
\* and no card mounted.
C14_NothingSavedNoRequest ==
    [][(/\ last'.op = "useEffect" \/ (last'.op = "toggleSave" /\ last'.alert = "")
        /\ user_id = "" \/ EmptyStored(saved_events'))
       => /\ net' = net
          /\ ~savedLoading'
          /\ savedEvents' = <<>>
          /\ DOMAIN cards' = {}]_vars

\* The only saved event was unsaved from its card in the view: the list is the
\* empty array, nothing is displayed and nothing is in flight.
C14_Witness ==
    /\ AfterToggle /\ last.note = "unsave-present" /\ last.alert = ""
    /\ saved_events = JSONstringify(<<>>)
    /\ savedEvents = <<>> /\ ~savedLoading /\ net = EmptyBag

\* C10 as claimed: every reader of a malformed saved_events logs the failure
\* and shows the user nothing.
C10_ParseFailureNeverSurfaces ==
    (saved_events = RawBad
     /\ (last.op \in {"useEffect", "toggleSave"} \/ (AfterLoad /\ DOMAIN cards # {})))
    => (last.alert = "" /\ last.log # {})

\* C10 amended: with a malformed saved_events the SavedEvents load logs and ends
\* with an empty list, loading false and no request; checkIfSaved logs and leaves
\* the mounting card unsaved; toggleSave logs, leaves storage and the card as
\* they were, and raises its failure alert.
C10_ParseFailureHandling ==
    [][saved_events = RawBad =>
        /\ last'.op = "useEffect" =>
              /\ last'.alert = "" /\ last'.log # {}
              /\ savedEvents' = <<>> /\ ~savedLoading' /\ net' = net
        /\ last'.req.op = "loadSavedEvents" =>
              /\ last'.alert = ""
              /\ \A id \in DOMAIN cards' : ~cards'[id].isSaved
              /\ DOMAIN cards' # {} => "Error checking if event is saved:" \in last'.log
        /\ last'.op = "toggleSave" =>
              /\ last'.alert = "Failed to save/unsave event. Please try again."
              /\ "Error toggling save:" \in last'.log
              /\ saved_events' = saved_events /\ cards' = cards]_vars

\* toggleSave ran on a malformed saved_events.
C10_Witness == AfterToggle /\ saved_events = RawBad /\ last.alert # ""

(***************************************************************************)
(* The backend as the Feed view sees it: a catalog of NumEvents events     *)
(* served PageSize to a page, searches that return up to MaxResults        *)
(* events, the user's record and the ingestion job's report.               *)
(***************************************************************************)
PageSize == 2
MaxResults == 1

TotalPages == (NumEvents + PageSize - 1) \div PageSize

FeedPage(p) ==
    LET first == (p - 1) * PageSize
        n == IF NumEvents - first < PageSize THEN NumEvents - first ELSE PageSize
    IN  [i \in 1..n |-> EventT(first + i)]

PaginationInfo(p) ==
    [current_page |-> p, total_pages |-> TotalPages, total_events |-> NumEvents,
     events_per_page |-> PageSize, has_next |-> p < TotalPages, has_previous |-> p > 1]

FeedBody(p) == [events |-> FeedPage(p), pagination |-> PaginationInfo(p)]

\* A search matches nothing, or the first MaxResults events.
SearchBodies == {<<>>, [i \in 1..MaxResults |-> EventT(i)]}

UserBodies == {[interests |-> <<"tech">>]}

IngestBodies == {[results |-> [total_events |-> NumEvents]]}

\* The user's record, with or without interests and a display name.
ProfileBodies == {[interests |-> <<"tech">>, display_name |-> "Al"], [id |-> "u1"]}

BootstrapBodies == {[id |-> "u2"]}

FeedbackBodies == {[ok |-> TRUE]}

ResponsesFor(req) ==
    CASE req.op = "loadFeed" -> Responses({FeedBody(req.captured[1])})
      [] req.op = "doSearch" -> Responses(SearchBodies)
      [] req.op = "loadUserInterests" -> Responses(UserBodies)
      [] req.op = "loadExistingInterests" -> Responses(ProfileBodies)
      [] req.op = "submit" -> Responses(BootstrapBodies)
      [] req.op = "signal" -> Responses(FeedbackBodies)
      [] OTHER -> Responses(IngestBodies)

(***************************************************************************)
(* SearchBar: the text the user submits, a sequence of characters.         *)
(***************************************************************************)
MaxQueryLen == 1

Chars == {" ", "a"}

RECURSIVE Texts(_)
Texts(n) == IF n = 0 THEN {<<>>} ELSE Texts(n - 1) \cup {Append(t, c) : t \in Texts(n - 1), c \in Chars}

Queries == Texts(MaxQueryLen)

RECURSIVE trimStart(_)
trimStart(q) == IF q # <<>> /\ Head(q) = " " THEN trimStart(Tail(q)) ELSE q

RECURSIVE trimEnd(_)
trimEnd(q) == IF q # <<>> /\ q[Len(q)] = " " THEN trimEnd(SubSeq(q, 1, Len(q) - 1)) ELSE q

\* String.prototype.trim
trim(q) == trimEnd(trimStart(q))

(***************************************************************************)
(* Feed.                                                                   *)
(***************************************************************************)
MaxInflight == 2

FeedLimit == 20

\* The cards after a render: none while loading, else one per displayed event;
\* a card whose key was rendered before keeps its state, a new one mounts.
RenderCards(isLoading, shown) ==
    IF isLoading THEN NoCards
    ELSE [id \in {shown[i].id : i \in 1..Len(shown)} |->
            IF id \in DOMAIN cards THEN cards[id]
            ELSE [isSaved |-> MountCard(user_id, saved_events, id).isSaved]]

RenderLog(isLoading, shown) ==
    IF isLoading THEN {}
    ELSE UNION {MountCard(user_id, saved_events, shown[i].id).log :
                    i \in {j \in 1..Len(shown) : shown[j].id \notin DOMAIN cards}}

\* loadFeed(page) up to its await: the request it issues.  awaitedBy names the
\* caller that awaits the promise ("" when it is dropped).
loadFeed(page, awaitedBy) ==
    Request("loadFeed", awaitedBy, "GET",
            Path("/events/feed",
                 (IF user_id # "" THEN << <<"user_id", user_id>> >> ELSE <<>>)
                 \o << <<"limit", ToString(FeedLimit)>>, <<"page", ToString(page)>> >>),
            <<page>>)

\* loadUserInterests up to its await.
loadUserInterests ==
    IF user_id = "" THEN <<>>
    ELSE <<Request("loadUserInterests", "", "GET",
                   Path("/users/" \o user_id, <<>>), <<>>)>>

\* The mount effect of Feed: loadFeed(1); loadUserInterests().
FeedEffect ==
    /\ ~mounted
    /\ mounted' = TRUE
    /\ loading' = TRUE
    /\ cards' = RenderCards(TRUE, events)
    /\ net' = net (+) Pending(<<[loadFeed(1, "") EXCEPT !.atMount = TRUE]>>
                               \o loadUserInterests)
    /\ last' = Did("useEffect", 0, "", "", {})
    /\ UNCHANGED <<storageVars, savedVars, onbVars, events, pagination, currentPage,
                   ingesting, userInterests>>

\* The continuation with setCurrentPage(page) left out.
pageKept(s, page) == currentPage

\* setCurrentPage(page), reached only if the awaited getJSON did not throw.
pageAfterLoad(s, page) == IF s.ok THEN page ELSE currentPage

\* The continuation adding the page to the events already displayed.
eventsAppended(s) == IF s.ok THEN events \o s.value.events ELSE events

\* setEvents(data.events), reached only if the awaited getJSON did not throw.
eventsAfterLoad(s) == IF s.ok THEN s.value.events ELSE events

\* What the response of req replaces on the screen when req is the mount
\* effect's request and the step before displayed the response of a request
\* issued after it: the handler of that later request.
Replaced(req) ==
    IF req.atMount /\ last.res.ok /\ last.op \in {"loadFeed", "doSearch"}
    THEN last.op ELSE ""

\* The continuation of loadFeed after its await, and of ingestGatechEvents
\* when it is the caller awaiting loadFeed.
LoadFeedDone(req, resp) ==
    /\ req.op = "loadFeed"
    /\ net' = Remove(net, req)
    /\ LET s == Settle(resp)
           byIngest == req.awaitedBy = "ingestGatechEvents"
           shown == eventsAfterLoad(s)
       IN  /\ events' = shown
           /\ pagination' = IF s.ok THEN s.value.pagination ELSE pagination
           /\ currentPage' = pageAfterLoad(s, req.captured[1])
           /\ loading' = FALSE
           /\ ingesting' = IF byIngest THEN FALSE ELSE ingesting
           /\ cards' = RenderCards(FALSE, shown)
           /\ last' = [Resumed("loadFeed", Seen(s),
                               IF byIngest /\ ~s.ok
                               THEN "Failed to ingest events. Check console for details."
                               ELSE "",
                               (IF byIngest /\ ~s.ok THEN {"Ingestion error:"} ELSE {})
                               \cup RenderLog(FALSE, shown),
                               ~s.ok /\ ~byIngest)
                        EXCEPT !.note = Replaced(req)]
    /\ UNCHANGED <<storageVars, mounted, savedVars, onbVars, userInterests>>

\* The continuation of loadUserInterests.
LoadUserInterestsDone(req, resp) ==
    /\ req.op = "loadUserInterests"
    /\ net' = Remove(net, req)
    /\ LET s == Settle(resp)
       IN  /\ userInterests' = IF s.ok THEN s.value.interests ELSE <<>>
           /\ last' = Resumed("loadUserInterests", Seen(s), "",
                              IF s.ok THEN {} ELSE {"Error loading user interests:"}, FALSE)
    /\ UNCHANGED <<storageVars, mounted, savedVars, onbVars, events, pagination,
                   currentPage, loading, ingesting, cards>>

\* !q with the trim forgotten.
isEmptyUntrimmed(q) == q = <<>>

\* !q.trim()
isEmptyQuery(q) == trim(q) = <<>>

\* doSearch(q) up to its await.
doSearch(q) ==
    IF isEmptyQuery(q) THEN loadFeed(1, "")
    ELSE Request("doSearch", "", "GET",
                 Path("/events/search",
                      << <<"q", q>>, <<"limit", ToString(FeedLimit)>>,
                         <<"user_id", user_id>> >>),
                 <<>>)

\* The SearchBar's submit: onSearch(q).
DoSearch(q) ==
    /\ mounted
    /\ BagCardinality(net) < MaxInflight
    /\ loading' = TRUE
    /\ cards' = RenderCards(TRUE, events)
    /\ net' = net (+) Pending(<<doSearch(q)>>)
    /\ last' = Did("doSearch", 0, q, "", {})
    /\ UNCHANGED <<storageVars, mounted, savedVars, onbVars, events, pagination,
                   currentPage, ingesting, userInterests>>

\* The continuation with a guard that drops a response while another request
\* is in flight.
eventsUnlessPending(s) == IF s.ok /\ BagCardinality(net) = 1 THEN s.value ELSE events

\* setEvents(data), reached only if the awaited getJSON did not throw.
eventsAfterSearch(s) == IF s.ok THEN s.value ELSE events

\* The continuation of doSearch after its await.
DoSearchDone(req, resp) ==
    /\ req.op = "doSearch"
    /\ net' = Remove(net, req)
    /\ LET s == Settle(resp)
           shown == eventsAfterSearch(s)
       IN  /\ events' = shown
           /\ pagination' = IF s.ok THEN Null ELSE pagination
           /\ loading' = FALSE
           /\ cards' = RenderCards(FALSE, shown)
           /\ last' = Resumed("doSearch", Seen(s), "", RenderLog(FALSE, shown), ~s.ok)
    /\ UNCHANGED <<storageVars, mounted, savedVars, onbVars, currentPage, ingesting,
                   userInterests>>

\* ingestGatechEvents up to its first await; the button is disabled while ingesting.
IngestGatechEvents ==
    /\ mounted
    /\ ~ingesting
    /\ BagCardinality(net) < MaxInflight
    /\ ingesting' = TRUE
    /\ net' = net (+) Pending(<<Request("ingestGatechEvents", "", "POST",
                                                Path("/ingestion/gatech-events", <<>>),
                                                <<>>)>>)
    /\ last' = Did("ingestGatechEvents", 0, "", "", {})
    /\ UNCHANGED <<storageVars, mounted, savedVars, onbVars, events, pagination,
                   currentPage, loading, userInterests, cards>>

\* The reload issued whether or not the POST succeeded.
reloadAlways(s) == <<loadFeed(1, "ingestGatechEvents")>>

\* await loadFeed(1) is reached only if the awaited POST did not throw.
reloadAfterIngest(s) == IF s.ok THEN <<loadFeed(1, "ingestGatechEvents")>> ELSE <<>>

\* ingestGatechEvents after the POST settles: the alert, then await loadFeed(1).
IngestDone(req, resp) ==
    /\ req.op = "ingestGatechEvents"
    /\ LET s == Settle(resp)
       IN  /\ net' = Remove(net, req) (+) Pending(reloadAfterIngest(s))
           /\ IF s.ok
              THEN /\ loading' = TRUE
                   /\ cards' = RenderCards(TRUE, events)
                   /\ last' = Resumed("ingestGatechEvents", Seen(s),
                                      "Successfully ingested "
                                      \o ToString(s.value.results.total_events)
                                      \o " Georgia Tech events!", {}, FALSE)
                   /\ UNCHANGED ingesting
              ELSE /\ ingesting' = FALSE
                   /\ last' = Resumed("ingestGatechEvents", Seen(s),
                                      "Failed to ingest events. Check console for details.",
                                      {"Ingestion error:"}, FALSE)
                   /\ UNCHANGED <<loading, cards>>
    /\ UNCHANGED <<storageVars, mounted, savedVars, onbVars, events, pagination,
                   currentPage, userInterests>>

\* The pagination controls are rendered with the cards, for more than one page.
ControlsShown ==
    /\ ~loading /\ Len(events) > 0
    /\ pagination # Null /\ pagination.total_pages > 1

\* goToPage without its test.
goToPageUnchecked(page) == <<loadFeed(page, "")>>

\* goToPage(page): the requests its call of loadFeed issues, if it makes one.
goToPage(page) ==
    IF page >= 1 /\ pagination # Null /\ page <= pagination.total_pages
    THEN <<loadFeed(page, "")>>
    ELSE <<>>

\* A call of goToPage(page), up to the await of the loadFeed it calls.
GoToPageCalled(page) ==
    /\ mounted
    /\ BagCardinality(net) < MaxInflight
    /\ IF goToPage(page) # <<>>
       THEN /\ loading' = TRUE
            /\ cards' = RenderCards(TRUE, events)
            /\ net' = net (+) Pending(goToPage(page))
       ELSE UNCHANGED <<loading, cards, net>>
    /\ last' = Did("goToPage", page, "", "", {})
    /\ UNCHANGED <<storageVars, mounted, savedVars, onbVars, events, pagination,
                   currentPage, ingesting, userInterests>>

\* goToPage(page), from a button of the pagination controls.
GoToPage(page) == ControlsShown /\ GoToPageCalled(page)

\* toggleSave of the card of event id, whose onSaved is () => loadFeed(currentPage).
ToggleSaveFeed(id) ==
    /\ id \in DOMAIN cards
    /\ BagCardinality(net) < MaxInflight
    /\ UNCHANGED <<savedVars, onbVars, mounted, events, pagination, currentPage,
                   ingesting, userInterests>>
    /\ IF user_id = ""
       THEN /\ last' = Did("toggleSave", id, "", "Please onboard first.", {})
            /\ UNCHANGED <<storageVars, loading, cards, net>>
       ELSE LET t == toggleSave(saved_events, id, cards[id].isSaved)
                note == Branch(saved_events, id, cards[id].isSaved)
            IN  IF t.threw
                THEN /\ last' = Did("toggleSave", id, note,
                                    "Failed to save/unsave event. Please try again.",
                                    {"Error toggling save:"})
                     /\ UNCHANGED <<storageVars, loading, cards, net>>
                ELSE /\ saved_events' = t.raw
                     /\ loading' = TRUE
                     /\ cards' = RenderCards(TRUE, events)
                     /\ net' = net (+) Pending(<<loadFeed(currentPage, "")>>)
                     /\ last' = Did("toggleSave", id, note, "", {})
                     /\ UNCHANGED <<user_id, user_email>>

(***************************************************************************)
(* The Feed tab.                                                           *)
(***************************************************************************)
InitFeed ==
    /\ user_id \in {"", "u1"}
    /\ user_email = ""
    /\ saved_events \in {RawNull, RawBad}
    /\ mounted = FALSE
    /\ savedEvents = <<>>
    /\ savedLoading = TRUE
    /\ InitFeedVars
    /\ InitOnbVars
    /\ cards = NoCards
    /\ net = EmptyBag
    /\ last = Did("", 0, "", "", {})

NextFeed ==
    \/ FeedEffect
    \/ \E req \in BagToSet(net) : \E resp \in ResponsesFor(req) : LoadFeedDone(req, resp)
    \/ \E req \in BagToSet(net) : \E resp \in ResponsesFor(req) : LoadUserInterestsDone(req, resp)
    \/ \E q \in Queries : DoSearch(q)
    \/ \E req \in BagToSet(net) : \E resp \in ResponsesFor(req) : DoSearchDone(req, resp)
    \/ IngestGatechEvents
    \/ \E req \in BagToSet(net) : \E resp \in ResponsesFor(req) : IngestDone(req, resp)
    \/ \E page \in 0..(TotalPages + 1) : GoToPage(page)
    \/ \E id \in SavableIds : ToggleSaveFeed(id)

SpecFeed == InitFeed /\ [][NextFeed]_vars

(***************************************************************************)
(* goToPage as a function of the Feed: called with any page number in any  *)
(* state of the view, also one whose render shows no pagination controls.  *)
(***************************************************************************)
NextPages ==
    \/ FeedEffect
    \/ \E req \in BagToSet(net) : \E resp \in ResponsesFor(req) : LoadFeedDone(req, resp)
    \/ \E req \in BagToSet(net) : \E resp \in ResponsesFor(req) : LoadUserInterestsDone(req, resp)
    \/ \E q \in Queries : DoSearch(q)
    \/ \E req \in BagToSet(net) : \E resp \in ResponsesFor(req) : DoSearchDone(req, resp)
    \/ \E page \in 0..(TotalPages + 1) : GoToPageCalled(page)

SpecPages == InitFeed /\ [][NextPages]_vars

(***************************************************************************)
(* Properties of the Feed tab.                                             *)
(***************************************************************************)
\* A query that is empty or holds only white space.
IsBlank(q) == \A i \in 1..Len(q) : q[i] = " "

\* The requests that settle in the step.
SettledRequests == {r \in BagToSet(net) : CopiesIn(r, net') < CopiesIn(r, net)}

\* The step is the SearchBar's submit with query text last'.note.
SubmitStep == last'.op = "doSearch" /\ SettledRequests = {}

\* C7: doSearch(q) with q empty or whitespace-only issues exactly the request
\* of loadFeed(1) and no /events/search request, leaves events, pagination and
\* currentPage as loadFeed(1) leaves them while the request is pending, and
\* when that request resolves the view shows the response's events and
\* pagination with currentPage = 1.
C7_BlankSearchIsLoadFeed ==
    [][/\ (SubmitStep /\ IsBlank(last'.note)) =>
            /\ net' = net (+) Pending(<<loadFeed(1, "")>>)
            /\ \A r \in BagToSet(net') :
                    r.path.ep = "/events/search" => CopiesIn(r, net') = CopiesIn(r, net)
            /\ loading'
            /\ events' = events /\ pagination' = pagination
            /\ currentPage' = currentPage
       /\ (/\ last'.op = "loadFeed" /\ last'.res.ok
           /\ \E r \in SettledRequests : r = loadFeed(1, r.awaitedBy)) =>
            /\ events' = FeedBody(1).events
            /\ pagination' = FeedBody(1).pagination
            /\ currentPage' = 1
            /\ ~loading']_vars

\* A whitespace-only query was submitted and its request is pending.
C7_Witness ==
    /\ last.op = "doSearch" /\ last.note = <<" ">>
    /\ BagIn(loadFeed(1, ""), net)

\* C8: once a search has completed, saving or unsaving one of the displayed
\* results does not replace the results: when the only pending request is the
\* one the card's onSaved issued and it resolves, the displayed events are
\* still the search results and pagination is still cleared.
C8_SearchResultsSurviveSave ==
    [][(/\ last.op = "toggleSave" /\ last.alert = ""
        /\ BagCardinality(net) = 1
        /\ pagination = Null /\ events # <<>>
        /\ last'.op = "loadFeed" /\ last'.res.ok)
       => (events' = events /\ pagination' = Null)]_vars

C16_LastResolvedWins ==
    [][(last'.op \in {"loadFeed", "doSearch"} /\ SettledRequests # {}) =>
            IF last'.res.ok
            THEN events' = IF last'.op = "loadFeed" THEN last'.res.value.events
                           ELSE last'.res.value
            ELSE events' = events]_vars

\* Page 1 requested at mount resolved after a search issued later had
\* resolved: nothing is in flight and page 1 is displayed, not the results.
C16_Witness ==
    /\ last.op = "loadFeed" /\ last.res.ok /\ last.note = "doSearch"
    /\ net = EmptyBag
    /\ events = FeedBody(1).events /\ pagination = FeedBody(1).pagination

\* C18: no failure of a request of the Feed escapes its call site: no
\* continuation ends with the rejection of its request left uncaught.
C18_NoUnhandledRejection == ~last.unhandled

\* C20: when loadFeed(p) resumes after a successful response, the displayed
\* events are exactly the events of that response, with nothing of what was
\* displayed before, pagination is the response's pagination object and
\* currentPage is p; when the request failed, events, pagination and
\* currentPage are left as they were.
C20_LoadFeedReplaces ==
    [][(last'.op = "loadFeed" /\ SettledRequests # {}) =>
            IF last'.res.ok
            THEN /\ events' = last'.res.value.events
                 /\ pagination' = last'.res.value.pagination
                 /\ \A r \in SettledRequests :
                        /\ currentPage' = r.captured[1]
                        /\ events' = FeedBody(r.captured[1]).events
            ELSE /\ events' = events
                 /\ pagination' = pagination
                 /\ currentPage' = currentPage]_vars

\* Page 2 was loaded over a displayed page 1: only the events of page 2 are
\* displayed.
C20_Witness ==
    /\ last.op = "loadFeed" /\ last.res.ok /\ net = EmptyBag
    /\ currentPage = 2
    /\ events = FeedBody(2).events /\ events # <<>>
    /\ pagination = FeedBody(2).pagination

\* C22: goToPage(page) issues a feed request, for that page, only when a
\* pagination object is held and 1 <= page <= pagination.total_pages; for any
\* other page, or while pagination is null, it issues no request and leaves
\* events, pagination, currentPage and loading unchanged.
C22_GoToPageInRange ==
    [][last'.op = "goToPage" =>
            IF pagination # Null /\ last'.id >= 1 /\ last'.id <= pagination.total_pages
            THEN \E r \in BagToSet(net') :
                    /\ net' = net (+) SetToBag({r})
                    /\ r.path.ep = "/events/feed" /\ r.captured = <<last'.id>>
            ELSE /\ net' = net
                 /\ events' = events /\ pagination' = pagination
                 /\ currentPage' = currentPage /\ loading' = loading]_vars

\* goToPage(1) was called while search results were displayed and pagination
\* was null: nothing is in flight and the results are still displayed.
C22_Witness ==
    /\ last.op = "goToPage" /\ last.id = 1
    /\ pagination = Null /\ events # <<>> /\ ~loading
    /\ net = EmptyBag

\* The feed and search requests in flight.
FeedRequests == {r \in BagToSet(net) : r.op \in {"loadFeed", "doSearch"}}

\* C19: once the Feed has mounted, loading is true in every state where a
\* feed or search request is in flight, and false in every state where no
\* request is in flight.
C19_LoadingWhileInFlight ==
    mounted => /\ FeedRequests # {} => loading
               /\ net = EmptyBag => ~loading

\* The requests in flight on behalf of ingestGatechEvents: its POST, or the
\* loadFeed(1) it awaits.
IngestRequests(inflight) ==
    {r \in BagToSet(inflight) :
        r.op = "ingestGatechEvents" \/ r.awaitedBy = "ingestGatechEvents"}

\* C12: the ingest action first issues POST /ingestion/gatech-events alone;
\* feed page 1 is requested when, and only when, that call has succeeded; if
\* it fails no reload is issued and the displayed events are unchanged; the
\* ingesting flag is true exactly while the POST or the reload it awaits is in
\* flight, so it is false again once either outcome has run its course.
C12_IngestThenReload ==
    [][/\ (last'.op = "ingestGatechEvents" /\ SettledRequests = {}) =>
            /\ \E r \in BagToSet(net') :
                    /\ net' = net (+) SetToBag({r})
                    /\ r.method = "POST" /\ r.path.ep = "/ingestion/gatech-events"
            /\ ingesting'
       /\ (last'.op = "ingestGatechEvents" /\ SettledRequests # {}) =>
            IF last'.res.ok
            THEN /\ \E r \in BagToSet(net') :
                        /\ net' = (net (-) SetToBag(SettledRequests)) (+) SetToBag({r})
                        /\ r.path.ep = "/events/feed" /\ r.captured = <<1>>
                 /\ ingesting'
            ELSE /\ net' = net (-) SetToBag(SettledRequests)
                 /\ events' = events
                 /\ ~ingesting'
       /\ (last'.op = "loadFeed"
           /\ \E r \in SettledRequests : r.awaitedBy = "ingestGatechEvents") => ~ingesting'
       /\ ingesting' <=> IngestRequests(net') # {}]_vars

\* An ingestion failed while events were displayed: the alert was raised,
\* nothing is in flight, the events are still displayed and ingesting is false.
C12_Witness ==
    /\ last.op = "ingestGatechEvents" /\ ~last.res.ok
    /\ last.alert = "Failed to ingest events. Check console for details."
    /\ net = EmptyBag /\ events # <<>> /\ ~ingesting

(***************************************************************************)
(* Onboarding.  The text of the custom field is a sequence of tokens: a    *)
(* comma, a space, or a run of letters.                                    *)
(***************************************************************************)
MaxCustomLen == 3

PRESET_INTERESTS == {"tech", "robotics"}

CustomChars == {"tech", ",", " "}

RECURSIVE CustomTexts(_)
CustomTexts(n) ==
    IF n = 0 THEN {<<>>}
    ELSE CustomTexts(n - 1) \cup {Append(t, c) : t \in CustomTexts(n - 1), c \in CustomChars}

Customs == CustomTexts(MaxCustomLen)

Emails == {"", "a@gatech.edu"}

\* The string a token sequence spells.
RECURSIVE Join(_)
Join(t) == IF t = <<>> THEN "" ELSE Head(t) \o Join(Tail(t))

\* String.prototype.split(",")
RECURSIVE split(_)
split(t) ==
    IF \A i \in 1..Len(t) : t[i] # "," THEN <<t>>
    ELSE LET k == CHOOSE i \in 1..Len(t) : t[i] = "," /\ \A j \in 1..(i - 1) : t[j] # ","
         IN  <<SubSeq(t, 1, k - 1)>> \o split(SubSeq(t, k + 1, Len(t)))

\* .filter(Boolean) on strings
RECURSIVE filterBoolean(_)
filterBoolean(ps) ==
    IF ps = <<>> THEN <<>>
    ELSE (IF Head(ps) = "" THEN <<>> ELSE <<Head(ps)>>) \o filterBoolean(Tail(ps))

\* custom.split(",").map((s) => s.trim()).filter(Boolean)
customs(text) ==
    LET pieces == split(text)
    IN  filterBoolean([i \in 1..Len(pieces) |-> Join(trim(pieces[i]))])

\* The spread with the Set forgotten.
ArrayKeepingAll(list) == list

\* Array.from(new Set(list)): the first occurrence of each element, in order.
RECURSIVE ArrayFromSet(_)
ArrayFromSet(list) ==
    IF list = <<>> THEN <<>>
    ELSE LET r == ArrayFromSet(SubSeq(list, 1, Len(list) - 1))
             x == list[Len(list)]
         IN  IF Includes(r, x) THEN r ELSE Append(r, x)

\* const interests = Array.from(new Set([...selected, ...customs]))
interests(sel, text) == ArrayFromSet(sel \o customs(text))

\* toggle(tag)
toggle(sel, tag) ==
    IF Includes(sel, tag) THEN SelectSeq(sel, LAMBDA t : t # tag) ELSE Append(sel, tag)

\* loadExistingInterests up to its await (the later revision only).
loadExistingInterests(mail) ==
    IF revision = 1 \/ user_id = "" \/ mail = "" THEN <<>>
    ELSE <<Request("loadExistingInterests", "", "GET", Path("/users/" \o user_id, <<>>), <<>>)>>

\* The mount of Onboarding with its effect: if (email) loadExistingInterests().
OnboardingEffect ==
    /\ ~mounted
    /\ mounted' = TRUE
    /\ net' = net (+) Pending(loadExistingInterests(email))
    /\ last' = Did("useEffect", 0, "", "", {})
    /\ UNCHANGED <<storageVars, savedVars, feedVars, onbVars, cards>>

\* setEmail from the email input, and the effect on [email].
SetEmail(mail) ==
    /\ mounted /\ route # "/feed"
    /\ mail # email
    /\ BagCardinality(net) < MaxInflight
    /\ email' = mail
    /\ net' = net (+) Pending(loadExistingInterests(mail))
    /\ last' = Did("setEmail", 0, "", "", {})
    /\ UNCHANGED <<storageVars, mounted, savedVars, feedVars, cards, revision, name, selected,
                   custom, saving, error, isEditing, route>>

\* A click on the button of a preset.
Toggle(tag) ==
    /\ mounted /\ route # "/feed"
    /\ selected' = toggle(selected, tag)
    /\ last' = Did("toggle", 0, tag, "", {})
    /\ UNCHANGED <<storageVars, mounted, savedVars, feedVars, cards, net, revision, email, name,
                   custom, saving, error, isEditing, route>>

\* setName from the name input.
SetName(text) ==
    /\ mounted /\ route # "/feed"
    /\ text # name
    /\ name' = text
    /\ last' = Did("setName", 0, text, "", {})
    /\ UNCHANGED <<storageVars, mounted, savedVars, feedVars, cards, net, revision, email,
                   selected, custom, saving, error, isEditing, route>>

\* userData.interests || []
interestsOrEmpty(userData) ==
    IF "interests" \in DOMAIN userData THEN userData.interests ELSE <<>>

\* userData.display_name || ""
displayNameOrEmpty(userData) ==
    IF "display_name" \in DOMAIN userData THEN userData.display_name ELSE ""

\* The continuation keeping a selection the user has already made.
selectedUnlessToggled(s) ==
    IF s.ok /\ selected = <<>> THEN interestsOrEmpty(s.value) ELSE selected

\* setSelected(userData.interests || []), reached only if getJSON did not throw.
selectedAfterProfile(s) == IF s.ok THEN interestsOrEmpty(s.value) ELSE selected

\* Whether the continuation overwrites an edit made while its request was in
\* flight: the step before it was a toggle or a name edit, and the response
\* changes what that edit left.
Discarded(s) ==
    IF /\ s.ok /\ last.op \in {"toggle", "setName"}
       /\ (selected # interestsOrEmpty(s.value) \/ name # displayNameOrEmpty(s.value))
    THEN last.op ELSE ""

\* The continuation of loadExistingInterests.
LoadExistingInterestsDone(req, resp) ==
    /\ req.op = "loadExistingInterests"
    /\ net' = Remove(net, req)
    /\ LET s == Settle(resp)
       IN  /\ selected' = selectedAfterProfile(s)
           /\ name' = IF s.ok THEN displayNameOrEmpty(s.value) ELSE name
           /\ isEditing' = IF s.ok THEN TRUE ELSE isEditing
           /\ last' = [Settled("loadExistingInterests", req, Seen(s), "",
                               IF s.ok THEN {} ELSE {"Error loading existing interests:"},
                               FALSE)
                       EXCEPT !.note = Discarded(s)]
    /\ UNCHANGED <<storageVars, mounted, savedVars, feedVars, cards, revision, email, custom,
                   saving, error, route>>

\* submit up to its await, as the form's onSubmit handler: it runs on every
\* submit event, with or without an email (the button of the later revision
\* is disabled while saving).
Submit ==
    /\ mounted /\ route # "/feed"
    /\ revision = 2 => ~saving
    /\ BagCardinality(net) < MaxInflight
    /\ IF email = ""
       THEN /\ error' = "Please enter an email."
            /\ UNCHANGED <<saving, net>>
       ELSE /\ error' = Null
            /\ saving' = TRUE
            /\ net' = net (+) Pending(<<
                    [Request("submit", "", "POST", Path("/users/bootstrap", <<>>), <<email>>)
                        EXCEPT !.body = [email |-> email,
                                         display_name |-> IF name = "" THEN Null ELSE name,
                                         interests |-> interests(selected, custom)]]>>)
    /\ last' = Did("submit", 0, "", "", {})
    /\ UNCHANGED <<storageVars, mounted, savedVars, feedVars, cards, revision, email, name,
                   selected, custom, isEditing, route>>

\* The catch of submit with the message replaced by a fixed text.
bootstrapCatchGeneric(s) == "Something went wrong"

\* catch (err) { setError(String(err?.message || err)) }
bootstrapCatch(s) == s.message

SetItem(key, value) == [do |-> "setItem", key |-> key, value |-> value]
Navigate(to) == [do |-> "navigate", key |-> "", value |-> to]

\* The value the last effect of a kind on a key leaves, or old if there is none.
After(effects, do, key, old) ==
    LET at == {i \in 1..Len(effects) : effects[i].do = do /\ effects[i].key = key}
    IN  IF at = {} THEN old
        ELSE effects[CHOOSE i \in at : \A j \in at : j <= i].value

\* The rest of the try block with the navigation moved before the writes.
navigateThenStore(id, mail) ==
    <<Navigate("/feed"), SetItem("user_id", id)>>
    \o (IF revision = 2 THEN <<SetItem("user_email", mail)>> ELSE <<>>)

\* The rest of the try block after the await, in order:
\* localStorage.setItem("user_id", res.id); (localStorage.setItem("user_email",
\* email);) nav("/feed", { replace: true }).
storeThenNavigate(id, mail) ==
    <<SetItem("user_id", id)>>
    \o (IF revision = 2 THEN <<SetItem("user_email", mail)>> ELSE <<>>)
    \o <<Navigate("/feed")>>

\* The continuation of submit after its await.
SubmitDone(req, resp) ==
    /\ req.op = "submit"
    /\ net' = Remove(net, req)
    /\ LET s == Settle(resp)
           effects == IF s.ok THEN storeThenNavigate(s.value.id, req.captured[1]) ELSE <<>>
       IN  /\ user_id' = After(effects, "setItem", "user_id", user_id)
           /\ user_email' = After(effects, "setItem", "user_email", user_email)
           /\ route' = After(effects, "navigate", "", route)
           /\ error' = IF s.ok THEN error ELSE bootstrapCatch(s)
           /\ saving' = FALSE
           /\ last' = [Settled("submit", req,
                               [s EXCEPT !.value = IF s.ok THEN s.value ELSE <<>>], "",
                               IF ~s.ok /\ revision = 2 THEN {"Bootstrap error:"} ELSE {},
                               FALSE)
                       EXCEPT !.note = effects]
    /\ UNCHANGED <<saved_events, mounted, savedVars, feedVars, cards, revision, email,
                   name, selected, custom, isEditing>>

InitOnboarding ==
    /\ revision \in {1, 2}
    /\ user_id \in {"", "u1"}
    /\ user_email \in Emails
    /\ saved_events = RawNull
    /\ mounted = FALSE
    /\ savedEvents = <<>>
    /\ savedLoading = TRUE
    /\ InitFeedVars
    /\ email = (IF revision = 2 THEN user_email ELSE "")
    /\ name = ""
    /\ selected = <<>>
    /\ custom = <<>>
    /\ saving = FALSE
    /\ error = Null
    /\ isEditing = FALSE
    /\ route = ""
    /\ cards = NoCards
    /\ net = EmptyBag
    /\ last = Did("", 0, "", "", {})

NextOnboarding ==
    \/ OnboardingEffect
    \/ \E mail \in Emails : SetEmail(mail)
    \/ \E tag \in PRESET_INTERESTS : Toggle(tag)
    \/ \E req \in BagToSet(net) : \E resp \in ResponsesFor(req) : LoadExistingInterestsDone(req, resp)
    \/ Submit
    \/ \E req \in BagToSet(net) : \E resp \in ResponsesFor(req) : SubmitDone(req, resp)

SpecOnboarding == InitOnboarding /\ [][NextOnboarding]_vars

(***************************************************************************)
(* The later Onboarding with its email and name fields edited while the    *)
(* requests of loadExistingInterests are in flight.                        *)
(***************************************************************************)
ProfileEmails == Emails \cup {"b@gatech.edu"}

Names == {"", "Al", "Bo"}

InitProfile == InitOnboarding /\ revision = 2

NextProfile ==
    \/ OnboardingEffect
    \/ \E mail \in ProfileEmails : SetEmail(mail)
    \/ \E text \in Names : SetName(text)
    \/ \E tag \in PRESET_INTERESTS : Toggle(tag)
    \/ \E req \in BagToSet(net) : \E resp \in ResponsesFor(req) : LoadExistingInterestsDone(req, resp)

SpecProfile == InitProfile /\ [][NextProfile]_vars

(***************************************************************************)
(* The interests submit sends, for every filled-in form: the selection and *)
(* the custom text are drawn, and submit runs on them.                     *)
(***************************************************************************)
Selections == NoRepSeqs(PRESET_INTERESTS)

InitInterests ==
    /\ revision \in {1, 2}
    /\ user_id = ""
    /\ user_email = ""
    /\ saved_events = RawNull
    /\ mounted = TRUE
    /\ savedEvents = <<>>
    /\ savedLoading = TRUE
    /\ InitFeedVars
    /\ email = "a@gatech.edu"
    /\ name = ""
    /\ selected \in Selections
    /\ custom \in Customs
    /\ saving = FALSE
    /\ error = Null
    /\ isEditing = FALSE
    /\ route = ""
    /\ cards = NoCards
    /\ net = EmptyBag
    /\ last = Did("", 0, "", "", {})

NextInterests ==
    \/ Submit
    \/ \E req \in BagToSet(net) : \E resp \in ResponsesFor(req) : SubmitDone(req, resp)

SpecInterests == InitInterests /\ [][NextInterests]_vars

(***************************************************************************)
(* Properties of Onboarding.                                               *)
(***************************************************************************)
\* The step is the continuation of submit on a rejected POST /users/bootstrap.
BootstrapFailed ==
    /\ last'.op = "submit" /\ last'.req.op = "submit"
    /\ last'.req.path.ep = "/users/bootstrap"
    /\ ~last'.res.ok

\* C3: when the bootstrap call of submit fails (transport error, a status
\* outside the success range, or a body that does not decode), neither user_id
\* nor user_email is written, no navigation happens, the error state holds the
\* message of the error, and saving is reset.
C3_FailedBootstrapWritesNothing ==
    [][BootstrapFailed =>
        /\ user_id' = user_id /\ user_email' = user_email
        /\ route' = route
        /\ last'.res.message # ""
        /\ error' = last'.res.message
        /\ ~saving']_vars

\* A bootstrap call was answered 500 on a form that had never been submitted
\* with success: nothing is stored and the view shows the message.
C3_Witness ==
    /\ last.op = "submit" /\ last.req.op = "submit" /\ ~last.res.ok
    /\ last.res.message = "500 Internal Server Error"
    /\ error = "500 Internal Server Error"
    /\ user_id = "" /\ route = ""

\* C13: a submit with an email issues exactly one POST /users/bootstrap and a
\* submit without one issues nothing; when the call succeeds the continuation
\* issues no further request, writes the returned id to user_id (and, in the
\* later revision, the submitted email to user_email; the earlier one leaves
\* user_email alone), and navigates to /feed after those writes.
C13_BootstrapSuccess ==
    [][/\ (last'.op = "submit" /\ last'.req = NoRequest) =>
            IF email = "" THEN net' = net
            ELSE \E r \in BagToSet(net') :
                    /\ net' = net (+) SetToBag({r})
                    /\ r.method = "POST" /\ r.path.ep = "/users/bootstrap"
                    /\ r.body.email = email
       /\ (last'.op = "submit" /\ last'.req.op = "submit" /\ last'.res.ok) =>
            /\ net' = net (-) SetToBag({last'.req})
            /\ user_id' = last'.res.value.id
            /\ user_email' = (IF revision = 2 THEN last'.req.body.email ELSE user_email)
            /\ route' = "/feed"
            /\ \A i, j \in 1..Len(last'.note) :
                    (last'.note[i].do = "setItem" /\ last'.note[j].do = "navigate") => i < j
            /\ \E i \in 1..Len(last'.note) : last'.note[i] = SetItem("user_id", user_id')]_vars

\* A bootstrap succeeded after the email field was edited again: user_email
\* holds the email that was submitted, not the one now in the field.
C13_Witness ==
    /\ last.op = "submit" /\ last.req.op = "submit" /\ last.res.ok
    /\ revision = 2
    /\ user_id = "u2" /\ user_email = "a@gatech.edu" /\ email = ""
    /\ route = "/feed"

\* C23: in the later Onboarding, the mount with an email and every change of
\* the email field issue one GET /users/{id} exactly when a user id is stored
\* and the email is not empty, and no request otherwise; every response that
\* resolves replaces the selected interests and the display name with the
\* server's values, whatever the user toggled or typed while it was pending.
C23_ProfileReplacesEdits ==
    [][/\ last'.op \in {"setEmail", "useEffect"} =>
            IF user_id # "" /\ email' # ""
            THEN \E r \in BagToSet(net') :
                    /\ net' = net (+) SetToBag({r})
                    /\ r.method = "GET" /\ r.path = Path("/users/" \o user_id, <<>>)
            ELSE net' = net
       /\ (last'.op = "loadExistingInterests" /\ last'.res.ok) =>
            /\ selected' = interestsOrEmpty(last'.res.value)
            /\ name' = displayNameOrEmpty(last'.res.value)]_vars

\* The user's record arrived right after the user had toggled a preset while
\* the request was pending: the selection and the name are the server's, and
\* the preset the user chose is gone.
C23_Witness ==
    /\ last.op = "loadExistingInterests" /\ last.res.ok /\ last.note = "toggle"
    /\ selected = <<"tech">> /\ name = "Al"
    /\ user_id # "" /\ email # ""

\* custom[a..b] is a piece of the text between commas with the spaces around
\* it removed: it holds no comma, starts and ends with a token that is not a
\* space, and only spaces separate it from the comma (or the end of the text)
\* on either side.
IsTrimmedPiece(text, a, b) ==
    /\ a <= b
    /\ \A k \in a..b : text[k] # ","
    /\ text[a] # " " /\ text[b] # " "
    /\ \E l \in 0..(a - 1) :
        /\ l = 0 \/ text[l] = ","
        /\ \A k \in (l + 1)..(a - 1) : text[k] = " "
    /\ \E r \in (b + 1)..(Len(text) + 1) :
        /\ r = Len(text) + 1 \/ text[r] = ","
        /\ \A k \in (b + 1)..(r - 1) : text[k] = " "

TrimmedPieces(text) ==
    {Join(SubSeq(text, p[1], p[2])) :
        p \in {q \in (1..Len(text)) \X (1..Len(text)) : IsTrimmedPiece(text, q[1], q[2])}}

\* C4: the interests that submit sends are, without duplicates, the selected
\* presets together with the trimmed non-empty pieces of the custom text split
\* on commas.
C4_InterestsAreDedupUnion ==
    [][(last'.op = "submit" /\ last'.req = NoRequest /\ net' # net) =>
        LET issued == CHOOSE r \in BagToSet(net') : CopiesIn(r, net') > CopiesIn(r, net)
            sent == issued.body.interests
        IN  /\ Range(sent) = Range(selected) \cup TrimmedPieces(custom)
            /\ \A i, j \in 1..Len(sent) : sent[i] = sent[j] => i = j]_vars

\* submit has sent the interests of a form whose custom text repeats a selected
\* preset with a space before it and ends in an empty piece.
C4_Witness ==
    /\ last.op = "submit" /\ last.req = NoRequest
    /\ selected = <<"robotics", "tech">>
    /\ custom = <<" ", "tech", ",">>
    /\ \E r \in BagToSet(net) : r.body.interests = <<"robotics", "tech">>

(***************************************************************************)
(* api.ts on its own: calls of the three functions and their settlement.   *)
(***************************************************************************)
API == "http://localhost:8000"

ApiPaths == {"/events/feed", "/feedback"}

ApiBodies == {[id |-> "u2"], <<>>}

JSONHeaders == {<<"Content-Type", "application/json">>}

\* The fetch of a call: fetch(url, {method, headers, body}).
Fetch(fn, path, query, method, headers, body) ==
    [fn |-> fn, url |-> [base |-> API, path |-> path, query |-> query],
     method |-> method, headers |-> headers, body |-> body, attempts |-> 1]

\* getJSON(path) up to its await.
getJSON(path) == Fetch("getJSON", path, <<>>, "GET", {}, Null)

\* postJSON(path, body) up to its await.
postJSON(path, body) ==
    Fetch("postJSON", path, <<>>, "POST", JSONHeaders, [json |-> body])

\* deleteJSON(path, params) up to its await.
deleteJSON(path, params) == Fetch("deleteJSON", path, params, "DELETE", JSONHeaders, Null)

ApiCalls ==
    {getJSON(p) : p \in ApiPaths}
    \cup {postJSON(p, b) : p \in ApiPaths, b \in ApiBodies}
    \cup {deleteJSON(p, q) : p \in ApiPaths, q \in {<<>>, << <<"user_id", "u1">> >>}}

\* A caller calls one of the three functions.
ApiCall(fetch) ==
    /\ BagCardinality(net) < MaxInflight
    /\ net' = net (+) Pending(<<fetch>>)
    /\ last' = [op |-> "call", req |-> fetch, response |-> Null, res |-> NoResult]
    /\ UNCHANGED <<storageVars, mounted, savedVars, feedVars, onbVars, cards>>

\* The rest of the function after its await: the promise of the call settles.
ApiSettled(req, resp) ==
    /\ net' = Remove(net, req)
    /\ last' = [op |-> "settle", req |-> req, response |-> resp, res |-> Settle(resp)]
    /\ UNCHANGED <<storageVars, mounted, savedVars, feedVars, onbVars, cards>>

InitApi ==
    /\ user_id = ""
    /\ user_email = ""
    /\ saved_events = RawNull
    /\ mounted = FALSE
    /\ savedEvents = <<>>
    /\ savedLoading = TRUE
    /\ InitFeedVars
    /\ InitOnbVars
    /\ cards = NoCards
    /\ net = EmptyBag
    /\ last = [op |-> "", req |-> Null, response |-> Null, res |-> NoResult]

NextApi ==
    \/ \E fetch \in ApiCalls : ApiCall(fetch)
    \/ \E req \in BagToSet(net) : \E resp \in ResponsesWith(DOMAIN StatusTexts, ApiBodies) :
            ApiSettled(req, resp)

SpecApi == InitApi /\ [][NextApi]_vars

(***************************************************************************)
(* Properties of api.ts.                                                   *)
(***************************************************************************)
\* The step settles a call on a response (fetch itself did not reject).
SettledOnResponse == last'.op = "settle" /\ ~last'.response.transport

\* C9 as stated: a call makes one fetch, rejects with "status statusText" on a
\* status outside the success range, and otherwise resolves with the decoded body.
C9_SuccessStatusResolves ==
    [][SettledOnResponse =>
        /\ last'.req.attempts = 1 /\ BagCardinality(net') = BagCardinality(net) - 1
        /\ IF last'.response.status \in 200..299
           THEN last'.res.ok /\ last'.res.value = last'.response.body
           ELSE /\ ~last'.res.ok
                /\ last'.res.message = ToString(last'.response.status) \o " "
                                       \o last'.response.statusText]_vars

\* C9, amended: a call makes one fetch and no other; on a status outside the
\* success range it rejects with "status statusText"; on a success status it
\* resolves with the decoded body when the body decodes, and rejects with the
\* decoder's error when it does not; when fetch itself rejects, so does the call.
C9_OneFetchStatusOrBody ==
    [][last'.op = "settle" =>
        /\ last'.req.attempts = 1 /\ BagCardinality(net') = BagCardinality(net) - 1
        /\ CASE last'.response.transport ->
                    ~last'.res.ok /\ last'.res.message = "Failed to fetch"
             [] ~last'.response.transport /\ last'.response.status \notin 200..299 ->
                    /\ ~last'.res.ok
                    /\ last'.res.message = ToString(last'.response.status) \o " "
                                           \o last'.response.statusText
             [] OTHER ->
                    IF last'.response.json
                    THEN last'.res.ok /\ last'.res.value = last'.response.body
                    ELSE ~last'.res.ok /\ last'.res.message = "Unexpected end of JSON input"]_vars

\* A call was answered 204 with a body that does not decode, and rejected.
C9_Witness ==
    /\ last.op = "settle"
    /\ last.req.fn = "deleteJSON"
    /\ ~last.response.transport /\ last.response.status = 204 /\ ~last.response.json
    /\ ~last.res.ok

(***************************************************************************)
(* An EventCard on its own (no onSaved): its two signals.                  *)
(***************************************************************************)
\* signal with the feedback POST sent for both kinds.
signalPostsBoth(kind, id) ==
    IF user_id = "" THEN <<>>
    ELSE <<[Request("signal", "", "POST", Path("/feedback", <<>>), <<>>)
                EXCEPT !.body = IF kind = "saved"
                                THEN [user_id |-> user_id, event_id |-> id, saved |-> TRUE]
                                ELSE [user_id |-> user_id, event_id |-> id, clicked |-> TRUE]]>>

\* signal(kind): the requests it issues.  "saved" goes to toggleSave, which
\* issues none; "clicked" posts {user_id, event_id, clicked: true}.
signal(kind, id) ==
    IF user_id = "" \/ kind = "saved" THEN <<>>
    ELSE <<[Request("signal", "", "POST", Path("/feedback", <<>>), <<>>)
                EXCEPT !.body = [user_id |-> user_id, event_id |-> id, clicked |-> TRUE]]>>

\* A click on the Save button: signal("saved").
SignalSaved(id) ==
    /\ id \in DOMAIN cards
    /\ net' = net (+) Pending(signal("saved", id))
    /\ UNCHANGED <<user_id, user_email, mounted, savedVars, feedVars, onbVars>>
    /\ IF user_id = ""
       THEN /\ last' = Did("toggleSave", id, "", "Please onboard first.", {})
            /\ UNCHANGED <<saved_events, cards>>
       ELSE LET t == toggleSave(saved_events, id, cards[id].isSaved)
                note == Branch(saved_events, id, cards[id].isSaved)
            IN  IF t.threw
                THEN /\ last' = Did("toggleSave", id, note,
                                    "Failed to save/unsave event. Please try again.",
                                    {"Error toggling save:"})
                     /\ UNCHANGED <<saved_events, cards>>
                ELSE /\ saved_events' = t.raw
                     /\ cards' = [cards EXCEPT ![id].isSaved = t.isSaved]
                     /\ last' = Did("toggleSave", id, note, "", {})

\* A click on the link of the card: signal("clicked") up to its await.
SignalClicked(id) ==
    /\ id \in DOMAIN cards
    /\ BagCardinality(net) < MaxInflight
    /\ net' = net (+) Pending(signal("clicked", id))
    /\ last' = Did("signal", id, "clicked",
                   IF user_id = "" THEN "Please onboard first." ELSE "", {})
    /\ UNCHANGED <<storageVars, mounted, savedVars, feedVars, onbVars, cards>>

\* signal("clicked") after its await: nothing is left to do, and nothing
\* catches a rejection.
SignalDone(req, resp) ==
    /\ req.op = "signal"
    /\ net' = Remove(net, req)
    /\ last' = Settled("signal", req, Seen(Settle(resp)), "", {}, ~Settle(resp).ok)
    /\ UNCHANGED <<storageVars, mounted, savedVars, feedVars, onbVars, cards>>

InitCard ==
    /\ user_id \in {"", "u1"}
    /\ user_email = ""
    /\ saved_events \in RawValues
    /\ mounted = TRUE
    /\ savedEvents = <<>>
    /\ savedLoading = TRUE
    /\ InitFeedVars
    /\ InitOnbVars
    /\ cards = [id \in SavableIds |-> [isSaved |-> MountCard(user_id, saved_events, id).isSaved]]
    /\ net = EmptyBag
    /\ last = Did("", 0, "", "", {})

NextCard ==
    \/ \E id \in SavableIds : SignalSaved(id)
    \/ \E id \in SavableIds : SignalClicked(id)
    \/ \E req \in BagToSet(net) : \E resp \in ResponsesFor(req) : SignalDone(req, resp)
    \/ \E id \in SavableIds : \E isSaved \in BOOLEAN : OtherTabToggle(id, isSaved)

SpecCard == InitCard /\ [][NextCard]_vars

(***************************************************************************)
(* Properties of the EventCard.                                            *)
(***************************************************************************)
\* C11: the save/unsave signal changes at most the saved_events list and
\* issues no request; the click-through signal issues exactly one POST /feedback
\* with {user_id, event_id, clicked: true} and leaves saved_events unchanged;
\* with no stored user id neither signal writes storage or issues a request.
C11_SignalEffects ==
    [][/\ last'.op = "toggleSave" =>
            /\ net' = net
            /\ user_id' = user_id /\ user_email' = user_email
            /\ user_id = "" => saved_events' = saved_events
       /\ (last'.op = "signal" /\ last'.note = "clicked") =>
            /\ UNCHANGED storageVars
            /\ IF user_id = "" THEN net' = net
               ELSE \E r \in BagToSet(net') :
                        /\ net' = net (+) SetToBag({r})
                        /\ r.method = "POST" /\ r.path = Path("/feedback", <<>>)
                        /\ r.body = [user_id |-> user_id, event_id |-> last'.id,
                                     clicked |-> TRUE]]_vars

\* A card was saved and then clicked through: the list holds its id and the
\* only request in flight is the feedback POST.
C11_Witness ==
    /\ last.op = "signal" /\ last.note = "clicked" /\ last.id = 2
    /\ SavedList(saved_events) = <<2>>
    /\ BagCardinality(net) = 1
    /\ \E r \in BagToSet(net) : r.path.ep = "/feedback" /\ r.body.event_id = 2

\* C21: with a stored user id, the isSaved flag of a card equals membership
\* of its event id in saved_events right after the card mounted and right
\* after every toggleSave that completed without error, also when the flag
\* was stale before the toggle because another tab changed the stored list.
C21_FlagIsMembership ==
    /\ user_id # "" =>
            \A id \in DOMAIN cards :
                cards[id].isSaved = Includes(SavedList(saved_events), id)
    /\ [][(last'.op = "toggleSave" /\ last'.alert = "" /\ user_id # "") =>
            cards'[last'.id].isSaved = Includes(SavedList(saved_events'), last'.id)]_vars

\* A card whose flag was stale (not saved, while another tab had stored its
\* id) was toggled: nothing was written, the flag is true and the id is stored.
C21_Witness ==
    /\ last.op = "toggleSave" /\ last.alert = "" /\ last.note = "save-present"
    /\ user_id # ""
    /\ cards[last.id].isSaved /\ Includes(SavedList(saved_events), last.id)

(***************************************************************************)
(* Two tabs on one localStorage, each showing an EventCard.  A tab runs    *)
(* its own thread and localStorage has no lock, so between the getItem and *)
(* the setItem of a toggleSave in one tab the other tab may read or write. *)
(* cards[t] is the card of tab t: its event, its flag, whether its         *)
(* toggleSave stands between getItem and setItem, and the text it read.    *)
(***************************************************************************)
NumTabs == 2

Tabs == 1..NumTabs

\* Whether toggleSave calls setItem after reading the text read: always when
\* it unsaves, and when it saves an id the parsed list does not include.
callsSetItem(read, id, isSaved) ==
    LET p == JSONparse(GetItemOrEmptyArray(read))
    IN  p.ok /\ (isSaved \/ ~Includes(p.val, id))

\* toggleSave reading the item again when it writes.
setItemOfCurrent(read, id, isSaved) == toggleSave(saved_events, id, isSaved).raw

\* The text toggleSave passes to setItem, computed from the text it read.
setItemOfRead(read, id, isSaved) == toggleSave(read, id, isSaved).raw

\* toggleSave of the card of tab t up to and including JSON.parse(getItem).
ToggleRead(t) ==
    /\ cards[t].pc = "idle"
    /\ IF user_id = ""
       THEN /\ last' = Did("toggleSave", t, "", "Please onboard first.", {})
            /\ UNCHANGED cards
       ELSE IF ~JSONparse(GetItemOrEmptyArray(saved_events)).ok
       THEN /\ cards' = [cards EXCEPT ![t].read = saved_events]
            /\ last' = Did("toggleSave", t, "getItem",
                           "Failed to save/unsave event. Please try again.",
                           {"Error toggling save:"})
       ELSE /\ cards' = [cards EXCEPT ![t].read = saved_events, ![t].pc = "read"]
            /\ last' = Did("toggleSave", t, "getItem", "", {})
    /\ UNCHANGED <<storageVars, mounted, savedVars, feedVars, onbVars, net>>

\* The rest of that toggleSave: the setItem, if any, and setIsSaved.
ToggleWrite(t) ==
    /\ cards[t].pc = "read"
    /\ LET c == cards[t]
       IN  /\ saved_events' = IF callsSetItem(c.read, c.id, c.isSaved)
                              THEN setItemOfRead(c.read, c.id, c.isSaved)
                              ELSE saved_events
           /\ cards' = [cards EXCEPT ![t].isSaved = toggleSave(c.read, c.id, c.isSaved).isSaved,
                                     ![t].pc = "idle"]
    /\ last' = Did("toggleSave", t, "setItem", "", {})
    /\ UNCHANGED <<user_id, user_email, mounted, savedVars, feedVars, onbVars, net>>

InitTabs ==
    /\ user_id = "u1"
    /\ user_email = ""
    /\ saved_events \in {RawNull, RawBad}
    /\ mounted = TRUE
    /\ savedEvents = <<>>
    /\ savedLoading = TRUE
    /\ InitFeedVars
    /\ InitOnbVars
    /\ \E shown \in [Tabs -> SavableIds] :
            cards = [t \in Tabs |->
                        [id |-> shown[t],
                         isSaved |-> MountCard(user_id, saved_events, shown[t]).isSaved,
                         pc |-> "idle", read |-> saved_events]]
    /\ net = EmptyBag
    /\ last = Did("", 0, "", "", {})

NextTabs ==
    \/ \E t \in Tabs : ToggleRead(t)
    \/ \E t \in Tabs : ToggleWrite(t)

SpecTabs == InitTabs /\ [][NextTabs]_vars

(***************************************************************************)
(* Properties of the two tabs.                                             *)
(***************************************************************************)
\* C17: toggleSave in two tabs is an unlocked read-modify-write in which the
\* last write wins: the list a tab writes is computed from the list that tab
\* read, whatever the stored list has become since, so an id another tab
\* stored between this tab's read and its write is lost.
C17_LastWriteWins ==
    [][\A t \in Tabs :
        (last'.op = "toggleSave" /\ last'.note = "setItem" /\ last'.id = t) =>
            LET c == cards[t]
                list == SavedList(c.read)
            IN  /\ saved_events' =
                        IF c.isSaved THEN JSONstringify(Unsave(list, c.id))
                        ELSE IF ~Includes(list, c.id)
                        THEN JSONstringify(Append(list, c.id))
                        ELSE saved_events
                /\ saved_events' # saved_events =>
                        Range(SavedList(saved_events')) \subseteq Range(list) \cup {c.id}]_vars

\* Two tabs saved different events, both having read a list with neither id
\* before either wrote: both cards show saved, the stored list holds only the
\* id of the tab that wrote last.
C17_Witness ==
    \E t, u \in Tabs :
        /\ cards[t].id # cards[u].id
        /\ cards[t].isSaved /\ cards[u].isSaved
        /\ cards[t].pc = "idle" /\ cards[u].pc = "idle"
        /\ \A w \in {t, u} : \A x \in {cards[t].id, cards[u].id} :
                ~Includes(SavedList(cards[w].read), x)
        /\ last.op = "toggleSave" /\ last.note = "setItem" /\ last.id = u
        /\ SavedList(saved_events) = <<cards[u].id>>

(***************************************************************************)
(* The numbered page buttons of the Feed, over catalogs of 1..MaxPages     *)
(* pages: a page of such a catalog is displayed, the user clicks one of    *)
(* the numbered buttons, and that page of the same catalog comes back.     *)
(***************************************************************************)
MaxPages == 8

\* Page p of a catalog of total full pages, as the backend answers.
PageOf(total, p) ==
    [events |-> [i \in 1..PageSize |-> EventT((p - 1) * PageSize + i)],
     pagination |-> [current_page |-> p, total_pages |-> total,
                     total_events |-> total * PageSize, events_per_page |-> PageSize,
                     has_next |-> p < total, has_previous |-> p > 1]]

\* Math.min(5, pagination.total_pages)
buttonCount(total) == IF total < 5 THEN total ELSE 5

\* pageNum with the branch for the last pages left out.
pageNumUnclamped(total, current, i) ==
    IF total <= 5 THEN i + 1
    ELSE IF current <= 3 THEN i + 1
    ELSE current - 2 + i

\* pageNum of the button of index i (from 0).
pageNum(total, current, i) ==
    IF total <= 5 THEN i + 1
    ELSE IF current <= 3 THEN i + 1
    ELSE IF current >= total - 2 THEN total - 4 + i
    ELSE current - 2 + i

\* The numbers on the buttons, in order.
pageNumbers(total, current) ==
    [k \in 1..buttonCount(total) |-> pageNum(total, current, k - 1)]

\* A click on the numbered button of index i: goToPage(pageNum).
PageButton(i) ==
    /\ ControlsShown
    /\ i < buttonCount(pagination.total_pages)
    /\ GoToPageCalled(pageNum(pagination.total_pages, currentPage, i))

InitButtons ==
    /\ user_id = ""
    /\ user_email = ""
    /\ saved_events = RawNull
    /\ mounted = TRUE
    /\ savedEvents = <<>>
    /\ savedLoading = TRUE
    /\ \E total \in 1..MaxPages : \E p \in 1..total :
            /\ events = PageOf(total, p).events
            /\ pagination = PageOf(total, p).pagination
            /\ currentPage = p
    /\ loading = FALSE
    /\ ingesting = FALSE
    /\ userInterests = <<>>
    /\ InitOnbVars
    /\ cards = MountCards(user_id, saved_events, events)
    /\ net = EmptyBag
    /\ last = Did("", 0, "", "", {})

NextButtons ==
    \/ \E i \in 0..4 : PageButton(i)
    \/ \E req \in BagToSet(net) :
        \E resp \in Responses({PageOf(pagination.total_pages, req.captured[1])}) :
            LoadFeedDone(req, resp)

SpecButtons == InitButtons /\ [][NextButtons]_vars

(***************************************************************************)
(* Properties of the page buttons.                                         *)
(***************************************************************************)
\* C24: for every total_pages >= 1 and every currentPage within
\* 1..total_pages, the numbered buttons are min(5, total_pages) distinct
\* consecutive page numbers, all within 1..total_pages, and currentPage is
\* one of them.
C24_PageButtons ==
    (/\ pagination # Null /\ pagination.total_pages >= 1
     /\ currentPage >= 1 /\ currentPage <= pagination.total_pages) =>
        LET total == pagination.total_pages
            b == pageNumbers(total, currentPage)
        IN  /\ Len(b) = IF total < 5 THEN total ELSE 5
            /\ \A k \in 1..Len(b) : b[k] >= 1 /\ b[k] <= total
            /\ \A k \in 1..(Len(b) - 1) : b[k + 1] = b[k] + 1
            /\ \E k \in 1..Len(b) : b[k] = currentPage

\* The last page of a catalog of more than five pages was reached by a click
\* on its numbered button: the buttons are the last five pages.
C24_Witness ==
    /\ last.op = "loadFeed" /\ last.res.ok /\ ~loading
    /\ pagination # Null /\ pagination.total_pages > 5
    /\ currentPage = pagination.total_pages
    /\ pageNumbers(pagination.total_pages, currentPage)
            = [k \in 1..5 |-> pagination.total_pages - 5 + k]

====
